---- MODULE Spec2Model ----
(***************************************************************************)
(* The natural-language CRUD endpoint of src/src/index.ts: one handler,    *)
(* POST /api/ai/query, that asks a text-generation model for a batch of    *)
(* create/read/update/delete operations and dispatches them against the    *)
(* Item collection.  A handler runs from one await to the next in one      *)
(* step; concurrent requests interleave at the awaits.                     *)
(*                                                                         *)
(* Text is modelled as a sequence of characters where the code looks       *)
(* inside it (Item names, matched by a case-insensitive regular            *)
(* expression) and as a string where it is only compared (descriptions,    *)
(* queries, messages).                                                     *)
(***************************************************************************)
EXTENDS Naturals, Sequences, FiniteSets, TLC

VARIABLES
    store,       \* the Item collection: _id -> [name, description]
    nextId,      \* the next identity the collection assigns
    pc,          \* per request: "idle", "askGemini", "storage", "done"
    body,        \* per request: req.body
    asked,       \* per request: the prompts handed to askGemini
    aiResponse,  \* per request: the raw text the model returned
    parsed,      \* per request: JSON.parse(aiResponse)
    opIdx,       \* per request: position of the for-of loop over parsed.operations
    inflight,    \* per request: the storage calls issued and not yet settled
    docs,        \* per request: const docs of the update / delete case
    acc,         \* per request: const updated / const deleted
    lastResult,  \* per request: let lastResult
    response,    \* per request: what res.status(..).json(..) sent
    opResults,   \* history: the opResult of every operation dispatched so far
    calls,       \* history: the storage calls settled so far, in order
    failedOp,    \* history: the operation whose storage call was rejected (0: none)
    opStart,     \* history: the collection when the current operation began
    probe        \* a findDocs call on its own: [store, filter, result, applied]

vars == <<store, nextId, pc, body, asked, aiResponse, parsed, opIdx, inflight,
          docs, acc, lastResult, response, opResults, calls, failedOp, opStart,
          probe>>

reqVars == <<pc, body, asked, aiResponse, parsed, opIdx, inflight, docs, acc,
             lastResult, response, opResults, calls, failedOp, opStart>>

(***************************************************************************)
(* Bounds and input sets                                                   *)
(***************************************************************************)
\* the longest operations array the model returns
MaxOps == 2

\* the requests in flight together
Reqs == {"r1", "r2"}

\* the longest Item name and name pattern of the findDocs probes
MaxNameLen == 2

Apple == <<"a", "p">>

\* the characters of names and name patterns; "." is the regex wildcard
Chars == {"a", "A", "p", "."}

\* String.prototype.toLowerCase on one character
Lower(c) == IF c = "A" THEN "a" ELSE IF c = "P" THEN "p" ELSE c

EmptyObject == [k \in {} |-> ""]

\* req.body: no query, an empty query, a query
Bodies == {EmptyObject, [query |-> ""], [query |-> "rename the apple"]}

\* op.data of the operations the model proposes
Datas == {[name |-> Apple, description |-> "a fruit"], [description |-> ""]}

\* op.filter of the operations the model proposes
Filters == {[name |-> <<"A">>, description |-> "none"], [description |-> "a fruit"]}

KnownActions == {"create", "read", "update", "delete"}

Ops ==
    {[action |-> "create", data |-> d] : d \in Datas}
    \cup {[action |-> "read", filter |-> f] : f \in Filters}
    \cup {[action |-> "update", filter |-> f, data |-> d] : f \in Filters, d \in Datas}
    \cup {[action |-> "delete", filter |-> f] : f \in Filters}
    \cup {[action |-> "archive"]}

OpSeqs == UNION {[1..n -> Ops] : n \in 0..MaxOps}

\* the JSON values the model returns: batches whose declared count is the
\* length of the array or MaxOps, and an object without an operations array
Batches ==
    UNION {{[totalOperations |-> t, operations |-> ops] :
                t \in {Len(ops), MaxOps}} : ops \in OpSeqs}
    \cup {[totalOperations |-> 0]}

\* the raw texts of the model: JSON documents, and texts that are no JSON
RawTexts ==
    {[json |-> b] : b \in Batches}
    \cup {[text |-> "~~~json {} ~~~"], [text |-> "Sure, here is the plan"]}

(***************************************************************************)
(* Values handed back to the caller                                        *)
(***************************************************************************)
NullResult == [kind |-> "null"]

DocResult(d) == [kind |-> "doc", doc |-> d]

ListResult(ds) == [kind |-> "list", items |-> ds]

\* what findByIdAndUpdate / findByIdAndDelete resolve to when no document has the id
NullDoc == [null |-> TRUE]

NoResponse == [status |-> 0]

QueryRequired == [status |-> 400, body |-> [error |-> "Query is required"]]

\* the parse failure answered without the text that failed to parse
InvalidJSONNoEcho(raw) ==
    [status |-> 400, body |-> [error |-> "AI returned invalid JSON"]]

InvalidJSON(raw) ==
    [status |-> 400, body |-> [error |-> "AI returned invalid JSON", raw |-> raw]]

Success(batch, last) ==
    [status |-> 200, body |-> [totalOperations |-> batch.totalOperations, result |-> last]]

ServerError == [status |-> 500, body |-> [error |-> "Server error"]]

\* the default case naming no action
UnknownActionUnnamed(op) == [kind |-> "error", error |-> "Unknown action"]

UnknownAction(op) == [kind |-> "error", error |-> "Unknown action: " \o op.action]

\* the template literal: the instructions with the query spliced in
Prompt(query) == <<"You are an AI that decides CRUD actions", query, "Respond only in this JSON format.">>

\* JSON.parse: the value of a JSON document, a throw on any other text
JSONParse(raw) ==
    IF "json" \in DOMAIN raw THEN [ok |-> TRUE, value |-> raw.json] ELSE [ok |-> FALSE]

(***************************************************************************)
(* The Item collection                                                     *)
(***************************************************************************)
Doc(st, id) == [id |-> id, name |-> st[id].name, description |-> st[id].description]

RECURSIVE SortAsc(_)
SortAsc(S) ==
    IF S = {} THEN <<>>
    ELSE LET m == CHOOSE x \in S : \A y \in S : x <= y
         IN <<m>> \o SortAsc(S \ {m})

\* the documents with the given ids, in the collection's natural order
DocsOf(st, ids) == LET s == SortAsc(ids) IN [k \in 1..Len(s) |-> Doc(st, s[k])]

\* required: true on both paths; the string validator rejects "" as well
ItemSchema(data) ==
    /\ "name" \in DOMAIN data /\ data.name # <<>>
    /\ "description" \in DOMAIN data /\ data.description # ""

\* { $regex: pattern, $options: "i" } on a name: the pattern is found somewhere
\* in the name, letters compared without case, "." standing for any character
RegexTest(pattern, name) ==
    \E off \in 0..Len(name) :
        /\ off + Len(pattern) <= Len(name)
        /\ \A j \in 1..Len(pattern) :
              \/ pattern[j] = "."
              \/ Lower(pattern[j]) = Lower(name[off + j])

\* Item.find(filter): equality on every path of the filter
Find(filter, st) ==
    {id \in DOMAIN st : \A k \in DOMAIN filter : st[id][k] = filter[k]}

findDocs(filter, st) ==
    IF "name" \in DOMAIN filter /\ filter.name # <<>>
    THEN DocsOf(st, {id \in DOMAIN st : RegexTest(filter.name, st[id].name)})
    ELSE DocsOf(st, Find(filter, st))

\* op.filter, undefined read as {} by filter?.name and filter || {}
FilterOf(op) == IF "filter" \in DOMAIN op THEN op.filter ELSE EmptyObject

\* Item.create: the collection with a new document
Insert(st, id, data) ==
    [i \in DOMAIN st \cup {id} |->
        IF i = id THEN [name |-> data.name, description |-> data.description] ELSE st[i]]

\* findByIdAndUpdate(id, data): the paths of data set, no validators run
Update(st, id, data) ==
    [i \in DOMAIN st |->
        IF i = id
        THEN [k \in {"name", "description"} |->
                 IF k \in DOMAIN data THEN data[k] ELSE st[i][k]]
        ELSE st[i]]

\* findByIdAndDelete(id)
Remove(st, id) == [i \in DOMAIN st \ {id} |-> st[i]]

(***************************************************************************)
(* The handler, from one await to the next                                 *)
(***************************************************************************)
Set(f, r, v) == [f EXCEPT ![r] = v]

\* the first operation at or after position i that awaits the collection
\* (Len(ops) + 1: none); the default case of the switch awaits nothing
NextAwait(ops, i) ==
    CHOOSE k \in i..(Len(ops) + 1) :
        /\ k = Len(ops) + 1 \/ ops[k].action \in KnownActions
        /\ \A j \in i..(k - 1) : ops[j].action \notin KnownActions

\* the storage call an operation starts with
FirstCall(op, i) ==
    IF op.action = "create"
    THEN [op |-> i, kind |-> "create", data |-> op.data]
    ELSE [op |-> i, kind |-> "find", filter |-> FilterOf(op)]

\* the update case issuing findByIdAndUpdate for every remaining document at once
UpdateCallFanOut(i, ds, k, data) ==
    {[op |-> i, kind |-> "findByIdAndUpdate", id |-> ds[j].id, data |-> data] :
        j \in k..Len(ds)}

\* the call of the for-of over docs at position k of the update case
UpdateCall(i, ds, k, data) ==
    {[op |-> i, kind |-> "findByIdAndUpdate", id |-> ds[k].id, data |-> data]}

\* the call of the for-of over docs at position k of the delete case
DeleteCall(i, ds, k) ==
    {[op |-> i, kind |-> "findByIdAndDelete", id |-> ds[k].id]}

\* lastResult assigned once and kept
KeepFirst(last, opResult) == IF last = NullResult THEN opResult ELSE last

\* lastResult = opResult, for the operation that just finished
Overwrite(last, opResult) == opResult

\* the for-of loop over parsed.operations, entered at position i with the
\* collection st: the operations of unknown action yield their marker at
\* once, the next known one issues its first storage call, and past the
\* last operation the response is sent
Loop(r, batch, i, last, outs, st) ==
    LET ops == batch.operations
        j == NextAwait(ops, i)
        markers == [k \in 1..(j - i) |-> UnknownAction(ops[i + k - 1])]
        last2 == IF j > i THEN Overwrite(last, markers[j - i]) ELSE last
    IN  /\ opResults' = Set(opResults, r, outs \o markers)
        /\ lastResult' = Set(lastResult, r, last2)
        /\ docs' = Set(docs, r, <<>>)
        /\ acc' = Set(acc, r, <<>>)
        /\ opStart' = IF j > Len(ops) THEN opStart ELSE Set(opStart, r, st)
        /\ opIdx' = Set(opIdx, r, j)
        /\ IF j > Len(ops)
           THEN /\ response' = Set(response, r, Success(batch, last2))
                /\ pc' = Set(pc, r, "done")
                /\ inflight' = Set(inflight, r, {})
           ELSE /\ inflight' = Set(inflight, r, {FirstCall(ops[j], j)})
                /\ pc' = Set(pc, r, "storage")
                /\ UNCHANGED response

\* a rejected storage call swallowed inside the loop body: the operation
\* yields null and the loop goes on
CatchAndContinue(r) ==
    IF pc[r] = "storage"
    THEN Loop(r, parsed[r], opIdx[r] + 1, NullResult, Append(opResults[r], NullResult), store)
    ELSE /\ response' = Set(response, r, ServerError)
         /\ pc' = Set(pc, r, "done")
         /\ inflight' = Set(inflight, r, {})
         /\ UNCHANGED <<opIdx, docs, acc, lastResult, opResults, opStart>>

\* the catch of the handler
Catch(r) ==
    /\ response' = Set(response, r, ServerError)
    /\ pc' = Set(pc, r, "done")
    /\ inflight' = Set(inflight, r, {})
    /\ UNCHANGED <<opIdx, docs, acc, lastResult, opResults, opStart>>

\* the handler without its check of query
ReceiveUnchecked(r, b) ==
    /\ pc[r] = "idle"
    /\ body' = Set(body, r, b)
    /\ asked' = Set(asked, r, Append(asked[r], Prompt(b)))
    /\ pc' = Set(pc, r, "askGemini")
    /\ UNCHANGED <<store, nextId, aiResponse, parsed, opIdx, inflight, docs, acc,
                   lastResult, response, opResults, calls, failedOp, opStart, probe>>

Receive(r, b) ==
    /\ pc[r] = "idle"
    /\ body' = Set(body, r, b)
    /\ IF "query" \notin DOMAIN b \/ b.query = ""
       THEN /\ response' = Set(response, r, QueryRequired)
            /\ pc' = Set(pc, r, "done")
            /\ UNCHANGED asked
       ELSE /\ asked' = Set(asked, r, Append(asked[r], Prompt(b.query)))
            /\ pc' = Set(pc, r, "askGemini")
            /\ UNCHANGED response
    /\ UNCHANGED <<store, nextId, aiResponse, parsed, opIdx, inflight, docs, acc,
                   lastResult, opResults, calls, failedOp, opStart, probe>>

GeminiReturns(r, raw) ==
    /\ pc[r] = "askGemini"
    /\ aiResponse' = Set(aiResponse, r, raw)
    /\ LET p == JSONParse(raw)
       IN IF ~p.ok
          THEN /\ response' = Set(response, r, InvalidJSON(raw))
               /\ pc' = Set(pc, r, "done")
               /\ UNCHANGED <<parsed, opIdx, inflight, docs, acc, lastResult,
                              opResults, opStart>>
          ELSE /\ parsed' = Set(parsed, r, p.value)
               /\ IF "operations" \notin DOMAIN p.value
                  THEN Catch(r)
                  ELSE Loop(r, p.value, 1, NullResult, <<>>, store)
    /\ UNCHANGED <<store, nextId, body, asked, calls, failedOp, probe>>

\* askGemini rejects
GeminiFails(r) ==
    /\ pc[r] = "askGemini"
    /\ Catch(r)
    /\ UNCHANGED <<store, nextId, body, asked, aiResponse, parsed, calls, failedOp, probe>>

Settled(r, c) == Set(calls, r, Append(calls[r], [op |-> c.op, kind |-> c.kind]))

CreateReturns(r) ==
    /\ pc[r] = "storage"
    /\ \E c \in inflight[r] :
        /\ c.kind = "create"
        /\ IF ItemSchema(c.data)
           THEN LET st == Insert(store, nextId, c.data)
                    opResult == DocResult(Doc(st, nextId))
                IN  /\ store' = st
                    /\ nextId' = nextId + 1
                    /\ calls' = Settled(r, c)
                    /\ Loop(r, parsed[r], c.op + 1, Overwrite(lastResult[r], opResult),
                            Append(opResults[r], opResult), st)
                    /\ UNCHANGED failedOp
           ELSE /\ Catch(r)
                /\ failedOp' = Set(failedOp, r, c.op)
                /\ UNCHANGED <<store, nextId, calls>>
    /\ UNCHANGED <<body, asked, aiResponse, parsed, probe>>

ReadReturns(r) ==
    /\ pc[r] = "storage"
    /\ \E c \in inflight[r] :
        /\ c.kind = "find"
        /\ parsed[r].operations[c.op].action = "read"
        /\ LET opResult == ListResult(findDocs(c.filter, store))
           IN  /\ calls' = Settled(r, c)
               /\ Loop(r, parsed[r], c.op + 1, Overwrite(lastResult[r], opResult),
                       Append(opResults[r], opResult), store)
    /\ UNCHANGED <<store, nextId, body, asked, aiResponse, parsed, failedOp, probe>>

UpdateFindReturns(r) ==
    /\ pc[r] = "storage"
    /\ \E c \in inflight[r] :
        /\ c.kind = "find"
        /\ parsed[r].operations[c.op].action = "update"
        /\ calls' = Settled(r, c)
        /\ LET ds == findDocs(c.filter, store)
               opResult == ListResult(<<>>)
           IN IF ds = <<>>
              THEN Loop(r, parsed[r], c.op + 1, Overwrite(lastResult[r], opResult),
                        Append(opResults[r], opResult), store)
              ELSE /\ docs' = Set(docs, r, ds)
                   /\ acc' = Set(acc, r, <<>>)
                   /\ inflight' = Set(inflight, r,
                         UpdateCall(c.op, ds, 1, parsed[r].operations[c.op].data))
                   /\ UNCHANGED <<pc, opIdx, lastResult, response, opResults, opStart>>
    /\ UNCHANGED <<store, nextId, body, asked, aiResponse, parsed, failedOp, probe>>

UpdateOneReturns(r) ==
    /\ pc[r] = "storage"
    /\ \E c \in inflight[r] :
        /\ c.kind = "findByIdAndUpdate"
        /\ LET st == IF c.id \in DOMAIN store THEN Update(store, c.id, c.data) ELSE store
               updatedDoc == IF c.id \in DOMAIN store THEN Doc(st, c.id) ELSE NullDoc
               updated == Append(acc[r], updatedDoc)
               opResult == ListResult(updated)
           IN  /\ store' = st
               /\ calls' = Settled(r, c)
               /\ IF Len(updated) >= Len(docs[r])
                  THEN Loop(r, parsed[r], c.op + 1, Overwrite(lastResult[r], opResult),
                            Append(opResults[r], opResult), st)
                  ELSE /\ acc' = Set(acc, r, updated)
                       /\ inflight' = Set(inflight, r, (inflight[r] \ {c}) \cup
                             UpdateCall(c.op, docs[r], Len(updated) + 1, c.data))
                       /\ UNCHANGED <<pc, opIdx, docs, lastResult, response, opResults,
                                      opStart>>
    /\ UNCHANGED <<nextId, body, asked, aiResponse, parsed, failedOp, probe>>

DeleteFindReturns(r) ==
    /\ pc[r] = "storage"
    /\ \E c \in inflight[r] :
        /\ c.kind = "find"
        /\ parsed[r].operations[c.op].action = "delete"
        /\ calls' = Settled(r, c)
        /\ LET ds == findDocs(c.filter, store)
               opResult == ListResult(<<>>)
           IN IF ds = <<>>
              THEN Loop(r, parsed[r], c.op + 1, Overwrite(lastResult[r], opResult),
                        Append(opResults[r], opResult), store)
              ELSE /\ docs' = Set(docs, r, ds)
                   /\ acc' = Set(acc, r, <<>>)
                   /\ inflight' = Set(inflight, r, DeleteCall(c.op, ds, 1))
                   /\ UNCHANGED <<pc, opIdx, lastResult, response, opResults, opStart>>
    /\ UNCHANGED <<store, nextId, body, asked, aiResponse, parsed, failedOp, probe>>

DeleteOneReturns(r) ==
    /\ pc[r] = "storage"
    /\ \E c \in inflight[r] :
        /\ c.kind = "findByIdAndDelete"
        /\ LET st == IF c.id \in DOMAIN store THEN Remove(store, c.id) ELSE store
               deletedDoc == IF c.id \in DOMAIN store THEN Doc(store, c.id) ELSE NullDoc
               deleted == Append(acc[r], deletedDoc)
               opResult == ListResult(deleted)
           IN  /\ store' = st
               /\ calls' = Settled(r, c)
               /\ IF Len(deleted) >= Len(docs[r])
                  THEN Loop(r, parsed[r], c.op + 1, Overwrite(lastResult[r], opResult),
                            Append(opResults[r], opResult), st)
                  ELSE /\ acc' = Set(acc, r, deleted)
                       /\ inflight' = Set(inflight, r, (inflight[r] \ {c}) \cup
                             DeleteCall(c.op, docs[r], Len(deleted) + 1))
                       /\ UNCHANGED <<pc, opIdx, docs, lastResult, response, opResults,
                                      opStart>>
    /\ UNCHANGED <<nextId, body, asked, aiResponse, parsed, failedOp, probe>>

\* a storage call rejects (connection lost, cast error, ...)
StorageFails(r) ==
    /\ pc[r] = "storage"
    /\ \E c \in inflight[r] :
        /\ Catch(r)
        /\ failedOp' = Set(failedOp, r, c.op)
    /\ UNCHANGED <<store, nextId, body, asked, aiResponse, parsed, calls, probe>>

\* aiResponse before askGemini has resolved
NoText == [none |-> TRUE]

NoProbe == [applied |-> FALSE]

InitRequests ==
    /\ store = EmptyObject
    /\ nextId = 1
    /\ pc = [r \in Reqs |-> "idle"]
    /\ body = [r \in Reqs |-> EmptyObject]
    /\ asked = [r \in Reqs |-> <<>>]
    /\ aiResponse = [r \in Reqs |-> NoText]
    /\ parsed = [r \in Reqs |-> [totalOperations |-> 0]]
    /\ opIdx = [r \in Reqs |-> 0]
    /\ inflight = [r \in Reqs |-> {}]
    /\ docs = [r \in Reqs |-> <<>>]
    /\ acc = [r \in Reqs |-> <<>>]
    /\ lastResult = [r \in Reqs |-> NullResult]
    /\ response = [r \in Reqs |-> NoResponse]
    /\ opResults = [r \in Reqs |-> <<>>]
    /\ calls = [r \in Reqs |-> <<>>]
    /\ failedOp = [r \in Reqs |-> 0]
    /\ opStart = [r \in Reqs |-> EmptyObject]

Init == InitRequests /\ probe = NoProbe

Next ==
    \/ \E r \in Reqs, b \in Bodies : Receive(r, b)
    \/ \E r \in Reqs, raw \in RawTexts : GeminiReturns(r, raw)
    \/ \E r \in Reqs : GeminiFails(r)
    \/ \E r \in Reqs : CreateReturns(r)
    \/ \E r \in Reqs : ReadReturns(r)
    \/ \E r \in Reqs : UpdateFindReturns(r)
    \/ \E r \in Reqs : UpdateOneReturns(r)
    \/ \E r \in Reqs : DeleteFindReturns(r)
    \/ \E r \in Reqs : DeleteOneReturns(r)
    \/ \E r \in Reqs : StorageFails(r)

Spec == Init /\ [][Next]_vars

(***************************************************************************)
(* findDocs on its own, over every small collection and filter             *)
(***************************************************************************)
RECURSIVE Texts(_)
Texts(n) ==
    IF n = 0 THEN {<<>>}
    ELSE Texts(n - 1) \cup {Append(t, c) : t \in {u \in Texts(n - 1) : Len(u) = n - 1}, c \in Chars}

ProbeNames == Texts(MaxNameLen)

ProbeDescriptions == {"a fruit", "none"}

ProbeItems == [name : ProbeNames, description : ProbeDescriptions]

\* the collection holds the apple, or the apple and one more Item
ProbeStores ==
    {[i \in {1} |-> [name |-> Apple, description |-> "a fruit"]]}
    \cup {[i \in {1, 2} |-> IF i = 1 THEN [name |-> Apple, description |-> "a fruit"] ELSE it] :
              it \in ProbeItems}

\* a filter names any subset of the two fields
ProbeFilters ==
    {EmptyObject}
    \cup {[name |-> n] : n \in ProbeNames}
    \cup {[description |-> d] : d \in ProbeDescriptions}
    \cup {[name |-> n, description |-> d] : n \in ProbeNames, d \in ProbeDescriptions}

InitFind ==
    /\ InitRequests
    /\ probe \in {[store |-> st, filter |-> f, result |-> <<>>, applied |-> FALSE] :
                      st \in ProbeStores, f \in ProbeFilters}

\* case "read": opResult = await findDocs(op.filter)
ReadProbe ==
    /\ ~probe.applied
    /\ probe' = [probe EXCEPT !.result = findDocs(probe.filter, probe.store),
                              !.applied = TRUE]
    /\ UNCHANGED <<store, nextId>>
    /\ UNCHANGED reqVars

NextFind == ReadProbe

SpecFind == InitFind /\ [][NextFind]_vars

(***************************************************************************)
(* Properties                                                              *)
(***************************************************************************)
\* the model's text parsed to a batch with an operations array
HasBatch(r) ==
    /\ "json" \in DOMAIN aiResponse[r]
    /\ "operations" \in DOMAIN JSONParse(aiResponse[r]).value

BatchOf(r) == JSONParse(aiResponse[r]).value

Marker(op) == [kind |-> "error", error |-> "Unknown action: " \o op.action]

\* C1: a request whose model output parses to a batch of n >= 1 operations,
\* none of which met a storage failure, is answered 200 with the outcome of
\* operation n as result and the declared count as totalOperations, and all
\* n operations were dispatched, whatever the declared count.
C1_LastResultOnly ==
    \A r \in Reqs :
        (pc[r] = "done" /\ HasBatch(r) /\ Len(BatchOf(r).operations) >= 1 /\ failedOp[r] = 0)
        => LET ops == BatchOf(r).operations
               n == Len(ops)
           IN  /\ response[r].status = 200
               /\ DOMAIN response[r].body = {"totalOperations", "result"}
               /\ Len(opResults[r]) = n
               /\ response[r].body.result = opResults[r][n]
               /\ response[r].body.totalOperations = BatchOf(r).totalOperations
               /\ \A i \in 1..n :
                     ops[i].action \in KnownActions
                     => \E k \in DOMAIN calls[r] : calls[r][k].op = i

\* one request answered 200 for two operations of different outcome, another
\* answered 200 for a batch whose declared count is not its length
C1_Witness ==
    \E r, s \in Reqs :
        /\ pc[r] = "done" /\ HasBatch(r) /\ failedOp[r] = 0
        /\ Len(BatchOf(r).operations) = 2
        /\ Len(opResults[r]) = 2
        /\ opResults[r][1] # opResults[r][2]
        /\ response[r].status = 200
        /\ pc[s] = "done" /\ HasBatch(s) /\ failedOp[s] = 0
        /\ Len(BatchOf(s).operations) = 1
        /\ BatchOf(s).totalOperations # 1
        /\ response[s].status = 200

\* C2: a request whose query is missing or empty is answered 400 with
\* exactly {error: "Query is required"}; the model is never asked and the
\* request makes no storage call.
C2_QueryRequired ==
    \A r \in Reqs :
        (pc[r] # "idle" /\ ("query" \notin DOMAIN body[r] \/ body[r].query = ""))
        => /\ pc[r] = "done"
           /\ response[r] = [status |-> 400, body |-> [error |-> "Query is required"]]
           /\ asked[r] = <<>>
           /\ calls[r] = <<>>
           /\ inflight[r] = {}

\* one request refused for a missing query and one for an empty query
C2_Witness ==
    /\ \E r \in Reqs : pc[r] = "done" /\ body[r] = [query |-> ""] /\ response[r].status = 400
    /\ \E r \in Reqs : pc[r] = "done" /\ "query" \notin DOMAIN body[r] /\ response[r].status = 400

\* C3: a raw model output that is not valid JSON is answered 400 with
\* {error: "AI returned invalid JSON", raw: the raw text}, and the request
\* makes no storage call.
C3_InvalidJSON ==
    \A r \in Reqs :
        "text" \in DOMAIN aiResponse[r]
        => /\ pc[r] = "done"
           /\ response[r] = [status |-> 400,
                             body |-> [error |-> "AI returned invalid JSON",
                                       raw |-> aiResponse[r]]]
           /\ calls[r] = <<>>
           /\ inflight[r] = {}
           /\ opResults[r] = <<>>

\* a request answered for a text that is no JSON while the other request has
\* stored an Item
C3_Witness ==
    \E r, s \in Reqs :
        /\ aiResponse[r] = [text |-> "~~~json {} ~~~"]
        /\ response[r].status = 400
        /\ calls[s] # <<>>
        /\ store # EmptyObject

\* C4: an operation of unknown action makes no storage call and yields
\* {error: "Unknown action: <action>"}; the batch goes on to the next
\* operation, and when it is the last operation the response is 200 with the
\* marker as result.
C4_UnknownAction ==
    \A r \in Reqs :
        HasBatch(r) =>
            LET ops == BatchOf(r).operations
            IN \A i \in 1..Len(opResults[r]) :
                  ops[i].action \notin KnownActions
                  => /\ opResults[r][i] = Marker(ops[i])
                     /\ \A k \in DOMAIN calls[r] : calls[r][k].op # i
                     /\ \A c \in inflight[r] : c.op # i
                     /\ i < Len(ops)
                        => \/ Len(opResults[r]) > i
                           \/ \E c \in inflight[r] : c.op = i + 1
                           \/ failedOp[r] = i + 1
                     /\ i = Len(ops)
                        => /\ pc[r] = "done"
                           /\ response[r] = [status |-> 200,
                                             body |-> [totalOperations |-> BatchOf(r).totalOperations,
                                                       result |-> Marker(ops[i])]]

\* a request answered 200 with the marker for a last operation of unknown
\* action, and a request past an unknown first operation with its second
\* operation's storage call settled
C4_Witness ==
    /\ \E r \in Reqs :
          /\ HasBatch(r) /\ pc[r] = "done" /\ response[r].status = 200
          /\ Len(BatchOf(r).operations) = 2
          /\ BatchOf(r).operations[2].action = "archive"
          /\ BatchOf(r).operations[1].action = "create"
          /\ response[r].body.result.kind = "error"
    /\ \E r \in Reqs :
          /\ HasBatch(r) /\ Len(BatchOf(r).operations) = 2
          /\ BatchOf(r).operations[1].action = "archive"
          /\ \E k \in DOMAIN calls[r] : calls[r][k].op = 2

\* C5: when a storage call of operation k is rejected the request is
\* answered 500 with exactly {error: "Server error"}, no result of any
\* operation, and no operation after k is dispatched.
C5_ServerError ==
    \A r \in Reqs :
        failedOp[r] > 0
        => /\ pc[r] = "done"
           /\ response[r] = [status |-> 500, body |-> [error |-> "Server error"]]
           /\ Len(opResults[r]) = failedOp[r] - 1
           /\ inflight[r] = {}
           /\ \A k \in DOMAIN calls[r] : calls[r][k].op <= failedOp[r]

\* a storage call of the second of two operations rejected after the first
\* operation completed, and one rejected midway through an update
C5_Witness ==
    /\ \E r \in Reqs :
          /\ failedOp[r] = 2 /\ Len(opResults[r]) = 1 /\ response[r].status = 500
          /\ Len(BatchOf(r).operations) = 2
    /\ \E r \in Reqs :
          /\ failedOp[r] = 1 /\ Len(BatchOf(r).operations) = 2
          /\ \E k \in DOMAIN calls[r] : calls[r][k].kind = "find"

\* C9: within a request at most one storage call is outstanding; it belongs
\* to the operation after the last completed one; the settled calls are in
\* batch order, and inside an update or delete the find settles before any
\* by-id call, the by-id calls following one another.
C9_Sequential ==
    \A r \in Reqs :
        /\ Cardinality(inflight[r]) <= 1
        /\ \A c \in inflight[r] : c.op = Len(opResults[r]) + 1 /\ c.op = opIdx[r]
        /\ \A a, b \in DOMAIN calls[r] : a < b => calls[r][a].op <= calls[r][b].op
        /\ \A b \in DOMAIN calls[r] :
              LET op == BatchOf(r).operations[calls[r][b].op]
              IN  /\ calls[r][b].kind = "create" <=> op.action = "create"
                  /\ calls[r][b].kind = "findByIdAndUpdate" => op.action = "update"
                  /\ calls[r][b].kind = "findByIdAndDelete" => op.action = "delete"
                  /\ calls[r][b].kind = "find"
                     => \A a \in 1..(b - 1) : calls[r][a].op < calls[r][b].op
                  /\ calls[r][b].kind \in {"findByIdAndUpdate", "findByIdAndDelete"}
                     => \E a \in 1..(b - 1) :
                           calls[r][a].op = calls[r][b].op /\ calls[r][a].kind = "find"
        /\ \A k \in DOMAIN calls[r] :
              calls[r][k].op <= Len(opResults[r]) + 1

\* an update over two matched Items with its second findByIdAndUpdate
\* outstanding, after the first operation of the batch completed
C9_Witness ==
    \E r \in Reqs :
        /\ pc[r] = "storage"
        /\ Len(docs[r]) = 2 /\ Len(acc[r]) = 1
        /\ \E c \in inflight[r] : c.kind = "findByIdAndUpdate" /\ c.id = docs[r][2].id

(***************************************************************************)
(* The matching rule as the specification states it                        *)
(***************************************************************************)
\* needle occurs in text, letters compared without case
ContainsIgnoreCase(needle, text) ==
    \E off \in 0..Len(text) :
        /\ off + Len(needle) <= Len(text)
        /\ \A j \in 1..Len(needle) : Lower(needle[j]) = Lower(text[off + j])

\* every field the filter specifies is satisfied: name by case-insensitive
\* substring, any other field by equality
Matches(filter, item) ==
    \A k \in DOMAIN filter :
        IF k = "name" THEN ContainsIgnoreCase(filter.name, item.name)
        ELSE item[k] = filter[k]

Matching(filter, st) == {id \in DOMAIN st : Matches(filter, st[id])}

Items(list) == {list[k] : k \in DOMAIN list}

\* C6: a read returns exactly the Items that match its filter, name by
\* case-insensitive substring and any other field by equality, an empty
\* filter matching all, and leaves the collection unchanged.
C6_ReadMatches ==
    probe.applied
    => /\ Items(probe.result) = {Doc(probe.store, id) : id \in Matching(probe.filter, probe.store)}
       /\ Len(probe.result) = Cardinality(Matching(probe.filter, probe.store))

\* C7: an update dispatched while no other request runs sets the fields of
\* data on every Item matching the filter, lists the post-update Items as its
\* result, leaves every Item that does not match unchanged and keeps the
\* number of Items.
C7_UpdateMatched ==
    \A r \in Reqs :
        (/\ pc[r] = "done" /\ HasBatch(r) /\ response[r].status = 200
         /\ Len(BatchOf(r).operations) >= 1
         /\ BatchOf(r).operations[Len(BatchOf(r).operations)].action = "update"
         /\ \A s \in Reqs \ {r} : pc[s] = "idle")
        => LET op == BatchOf(r).operations[Len(BatchOf(r).operations)]
               before == opStart[r]
               matched == Matching(op.filter, before)
           IN  /\ DOMAIN store = DOMAIN before
               /\ \A id \in matched :
                     \A k \in {"name", "description"} :
                        store[id][k] = IF k \in DOMAIN op.data THEN op.data[k] ELSE before[id][k]
               /\ \A id \in DOMAIN before \ matched : store[id] = before[id]
               /\ Items(response[r].body.result.items) = {Doc(store, id) : id \in matched}

\* C8: every entry of a delete operation's result is an Item that operation
\* removed, never null, and no Item is reported removed by two operations,
\* under any interleaving with other requests.
C8_DeleteReportsRemoved ==
    /\ \A r \in Reqs :
          HasBatch(r) =>
             \A i \in 1..Len(opResults[r]) :
                BatchOf(r).operations[i].action = "delete"
                => \A k \in DOMAIN opResults[r][i].items : opResults[r][i].items[k] # NullDoc
    /\ \A r, s \in Reqs :
          (HasBatch(r) /\ HasBatch(s)) =>
             \A i \in 1..Len(opResults[r]), j \in 1..Len(opResults[s]) :
                (/\ <<r, i>> # <<s, j>>
                 /\ BatchOf(r).operations[i].action = "delete"
                 /\ BatchOf(s).operations[j].action = "delete")
                => \A d \in Items(opResults[r][i].items) \cap Items(opResults[s][j].items) :
                      d = NullDoc

\* C10: every stored Item has a name and a description, neither empty.
C10_FieldsPresent ==
    \A id \in DOMAIN store :
        /\ DOMAIN store[id] = {"name", "description"}
        /\ store[id].name # <<>>
        /\ store[id].description # ""

====
